---- MODULE Spec2Model ----
(***************************************************************************)
(* Session bridge of the Discord <-> Claude Code bot.                      *)
(*                                                                         *)
(*   ClaudeSession (src/bridge/session.ts): one subprocess per session    *)
(*   object, fields process / sessionId / buffer / busy.                   *)
(*   Session manager (src/bot/client.ts, thread-per-conversation          *)
(*   revision): the registry `sessions`, its side tables and the listeners *)
(*   that createSession attaches to every session (closure variables       *)
(*   responseBuffer, questionBuffer, questionTimeout, handledAskUser).     *)
(*                                                                         *)
(* Every handler is one action; a handler that suspends on a real await    *)
(* (network call to the chat platform) is cut at that await into a second  *)
(* action, because other I/O events run in between.                        *)
(*                                                                         *)
(* Around the manager: startBot of src/index.ts with POST /api/setup/save   *)
(* (SpecBoot) and the pending-download table of src/web/server.ts          *)
(* (SpecDownloads).                                                        *)
(*                                                                         *)
(* Text is a sequence of one-character strings.  The overflow diagnostic   *)
(* "prompt is too long" is abstracted to the two-character substring "PL", *)
(* so that it can straddle the boundary between narrative and result text. *)
(***************************************************************************)
EXTENDS Integers, Sequences, FiniteSets, TLC

\* ------------------------------------------------------------------ bounds
MaxSessions == 3   \* session objects ever constructed
MaxEvents   == 4   \* external events handled: chat messages, commands,
                   \* button presses, stdout records, process exits
MaxBuf      == 3   \* characters held in responseBuffer
MaxInput    == 4   \* bytes the subprocess writes when modelled byte by byte
MaxCalls    == 3   \* calls of startBot: main() and POST /api/setup/save
MaxDownloads == 3  \* download entries ever added
MaxTime     == 4   \* ticks of the clock read by Date.now()

Keys == {"k1", "k2"}              \* conversation keys (thread ids)
KeyNo(k) == IF k = "k1" THEN 1 ELSE 2   \* the platform hands out ids in order
SIds == 1 .. MaxSessions          \* session objects, in order of construction
None == 0                         \* "no session" / Map.get() === undefined

\* ------------------------------------------------------------------- text
WS == {" ", "\n"}

RECURSIVE TrimStart(_)
TrimStart(t) == IF t # <<>> /\ Head(t) \in WS THEN TrimStart(Tail(t)) ELSE t

RECURSIVE TrimEnd(_)
TrimEnd(t) ==
  IF t # <<>> /\ t[Len(t)] \in WS THEN TrimEnd(SubSeq(t, 1, Len(t) - 1)) ELSE t

\* String.prototype.trim
Trim(t) == TrimEnd(TrimStart(t))

\* text.split('\n')
RECURSIVE SplitLines(_)
SplitLines(t) ==
  IF \E i \in 1 .. Len(t) : t[i] = "\n"
  THEN LET i == CHOOSE j \in 1 .. Len(t) :
                  t[j] = "\n" /\ \A h \in 1 .. j - 1 : t[h] # "\n"
       IN <<SubSeq(t, 1, i - 1)>> \o SplitLines(SubSeq(t, i + 1, Len(t)))
  ELSE <<t>>

EndsWithQ(t) == t # <<>> /\ t[Len(t)] = "?"

containsQuestionAnywhere(text) == \E i \in 1 .. Len(text) : text[i] = "?"

\* formatter.ts containsQuestion
containsQuestion(text) ==
  LET lines    == SplitLines(Trim(text))
      lastLine == Trim(lines[Len(lines)])
  IN EndsWithQ(lastLine)

\* /prompt is too long/i.test(fullText), the marker abstracted to "PL"
isContextOverflow(fullText) ==
  \E i \in 1 .. Len(fullText) - 1 : fullText[i] = "P" /\ fullText[i + 1] = "L"

Truthy(t) == t # <<>>            \* a JavaScript string is truthy iff non-empty
Blank(t)  == Trim(t) = <<>>      \* !text.trim()

\* inputs
UserTexts   == {<<>>, <<"u">>}
Deltas      == {<<"a">>, <<"a", "?">>, <<"P">>}
ResultTexts == {<<>>, <<"L">>, <<"P", "L">>}
ExitCodes   == {"null", "0", "137"}   \* "null": terminated by a signal
\* session_id carried by a stdout record; "absent": the record has none
RecSids     == {"absent", "default", "tokA", "tokB"}
\* authors of chat messages: "owner" has the configured user id, "bot" is a
\* bot account that holds the configured role, "stranger" has neither
Authors     == {"owner", "bot", "stranger"}
Skip        == <<"skip">>             \* the literal fallback answer
Label       == <<"o">>                \* label of the option chosen
QText       == <<"q", "?">>           \* q.question of an AskUserQuestion entry

\* ------------------------------------------------------------------ state
VARIABLES
  sess,        \* [SIds -> ClaudeSession object fields]
  proc,        \* [SIds -> the ChildProcess / operating-system process]
  clo,         \* [SIds -> closure variables of createSession, pending handlers]
  nextId,      \* next session object to construct
  sessions,    \* registry: key -> session id or None
  sessionTypingIntervals,   \* keys with a typing interval in the map
  lastUserMessages,         \* key -> [set, text, resent]; set = FALSE: no entry;
                            \* resent (history): the overflow branch has
                            \* written this entry to a replacement
  originalMessages,         \* keys with an origin reference
  projectThreads,           \* threads tracked for the project channel
  threads,     \* thread ids that exist on the chat platform
  orphanIntervals,          \* keys with a running typing interval that is no
                            \* longer in the map (nothing can clear it)
  web,         \* the process around the bot: startBot and the download table
  mc,          \* MessageCreate handler suspended on attachment upload (s is
               \* the session it chose), or the handler of a typed answer
               \* suspended in ensureContainerRunning (s = None), or NoMc
  events,      \* external events handled so far
  act,         \* the handler that ran last
  out,         \* events delivered to the chat collaborator by that handler
  wr           \* records written to subprocess stdins by that handler

vars == <<sess, proc, clo, nextId, sessions, sessionTypingIntervals,
          lastUserMessages, originalMessages, projectThreads, threads,
          orphanIntervals, web, mc,
          events, act, out, wr>>

NoMc == [k |-> "none", s |-> None, text |-> <<>>]
\* web/server.ts: expiresAt = now + 10 * 60 * 1000, counted in clock ticks
ExpiryTicks == 2
Calls == 1 .. MaxCalls            \* call 1 is the one main() makes
DlIds == 1 .. MaxDownloads        \* the ids randomUUID() returns, in order
NoDownload == [on |-> FALSE, addedAt |-> 0, expiresAt |-> 0]
\* the process before main() ran and with an empty download table
\*   pc[c]     where call c of startBot stands: "none", "image" (awaiting
\*             imageExists), "build" (awaiting buildImage), "login" (awaiting
\*             client.login), "done", "returned" (line 16), "failed"
\*   clients   clients constructed by createClient
\*   logins    clients whose login resolved
\*   alive     the process has not called process.exit
\*   downloads id -> entry; on = FALSE: no entry; addedAt is history
\*   served    (history) how often res.send delivered the data of the id
NoWeb == [setupComplete |-> FALSE, botRunning |-> FALSE, alive |-> TRUE,
          pc |-> [c \in Calls |-> "none"], clients |-> 0, logins |-> 0,
          now |-> 0, nextDl |-> 1,
          downloads |-> [i \in DlIds |-> NoDownload],
          served |-> [i \in DlIds |-> 0]]
NoLast == [set |-> FALSE, text |-> <<>>, resent |-> FALSE]
NoRes == [on |-> FALSE, text |-> <<>>, isError |-> FALSE, sawQ |-> FALSE,
          late |-> FALSE]

\* turns is history: input records written since the last stop or exit that
\* no result record has answered yet
\* lines is history too: the lines handed to the decoder so far; stdout is
\* every byte the subprocess has written to its standard output
\* first is history: the first session id captured since the last stop
FreshSess == [process |-> FALSE, sessionId |-> "null", busy |-> FALSE,
              buffer |-> <<>>, turns |-> 0, lines |-> <<>>, first |-> "null"]
FreshProc == [state |-> "none", exitCode |-> "null", signalled |-> FALSE,
              pending |-> 0, stdout |-> <<>>]
FreshClo(k) == [key |-> k, responseBuffer |-> <<>>, questionBuffer |-> <<>>,
                questionTimeout |-> FALSE, handledAskUser |-> FALSE,
                choice |-> "none", resPending |-> NoRes, exitPending |-> FALSE,
                qSent |-> 0, fired |-> FALSE, quiet |-> FALSE, sawQ |-> FALSE,
                superseded |-> FALSE]
\* Fields of clo that only record history, for stating properties:
\*   qSent       question messages sent since the last question-ending delta
\*   fired       the debounce timer armed by that delta has fired
\*   quiet       no delta and no AskUserQuestion since that delta
\*   sawQ        a delta moved text to questionBuffer since the last result
\*               record; resPending.sawQ keeps it for a suspended handler
\*   superseded  the session was stopped by overflow recovery
\*   resPending.late  responseBuffer holds text of a delta that arrived while
\*               the result handler was suspended

Act(name, s, k) == [name |-> name, s |-> s, k |-> k]
Ev(type, k, text) == [type |-> type, key |-> k, text |-> text]

\* ------------------------------------------------- ClaudeSession (part_009)
isBusy(s) == sess[s].busy

\* this.process !== null && this.process.exitCode === null.  ChildProcess
\* .exitCode stays null while the process runs and also when it was
\* terminated by a signal (then signalCode is set instead).
isAlive(s) == sess[s].process /\ proc[s].exitCode = "null"

\* start(): spawn the subprocess
start(o) == [o EXCEPT !.process = TRUE]
spawn(p) == [p EXCEPT !.state = "running"]

\* sendMessage throws 'Session not started' unless this.process is set
\* (stdin is a pipe whenever the process object exists)
canSendAlways(o) == TRUE

canSend(o) == o.process

sendMessage(o) == [o EXCEPT !.busy = TRUE, !.turns = @ + 1]

\* the user record sendMessage writes to the stdin of session s
userRecord(s, o, content) ==
  [s |-> s, content |-> content,
   session_id |-> IF o.sessionId = "null" THEN "default" ELSE o.sessionId]

\* the subprocess takes a written record as a new turn if it still runs
receive(p) == IF p.state = "running" THEN [p EXCEPT !.pending = @ + 1] ELSE p

stopKeepsBuffer(o) ==
  IF o.process
  THEN [o EXCEPT !.process = FALSE, !.sessionId = "null", !.busy = FALSE,
                 !.turns = 0, !.first = "null"]
  ELSE o

\* stop()
stop(o) ==
  IF o.process
  THEN [o EXCEPT !.process = FALSE, !.sessionId = "null", !.busy = FALSE,
                 !.buffer = <<>>, !.turns = 0, !.first = "null"]
  ELSE o
kill(o, p) == IF o.process THEN [p EXCEPT !.signalled = TRUE] ELSE p

\* handleMessage, case 'result': this.busy = false
onResult(o) == [o EXCEPT !.busy = FALSE, !.turns = IF @ > 0 THEN @ - 1 ELSE 0]

\* process.on('exit'): this.busy = false
onExit(o) == [o EXCEPT !.busy = FALSE, !.turns = 0]

onStderrClearsBusy(o) == [o EXCEPT !.busy = FALSE]

\* stderr.on('data'): emits 'error' when the text is not blank, and touches
\* no field of the session
onStderr(o) == o

captureOnce(o, sid) ==
  IF sid \notin {"absent", "default"} /\ o.sessionId = "null"
  THEN [o EXCEPT !.sessionId = sid, !.first = IF @ = "null" THEN sid ELSE @]
  ELSE o

\* handleMessage, first statement: capture the session id of any record
\* if (msg.session_id && msg.session_id !== 'default')
capture(o, sid) ==
  IF sid \notin {"absent", "default"}
  THEN [o EXCEPT !.sessionId = sid, !.first = IF @ = "null" THEN sid ELSE @]
  ELSE o

\* Bytes of the subprocess's standard output.  "R" stands for the bytes of
\* one complete JSON result record (session_id "tokA", no result text), "x"
\* for a byte that belongs to no JSON text, "e1" "e2" for the two bytes of one
\* character outside ASCII.
Bytes == {"R", "x", "\n", " ", "e1", "e2"}

\* data.toString(): each chunk is decoded on its own; bytes that do not form a
\* whole character inside the chunk become the replacement character "U",
\* the two bytes together become the character "E"
RECURSIVE toString(_)
toString(data) ==
  IF data = <<>> THEN <<>>
  ELSE IF Head(data) = "e1"
       THEN IF Len(data) >= 2 /\ data[2] = "e2"
            THEN <<"E">> \o toString(SubSeq(data, 3, Len(data)))
            ELSE <<"U">> \o toString(Tail(data))
  ELSE IF Head(data) = "e2" THEN <<"U">> \o toString(Tail(data))
  ELSE <<Head(data)>> \o toString(Tail(data))

\* processBuffer: const lines = this.buffer.split('\n');
\* this.buffer = lines.pop() || ''
Front(lines) == SubSeq(lines, 1, Len(lines) - 1)
Last(lines) == lines[Len(lines)]

\* processBuffer, the loop: trimmed = line.trim(); if (!trimmed) continue
RECURSIVE toDecoder(_)
toDecoder(lines) ==
  IF lines = <<>> THEN <<>>
  ELSE LET trimmed == Trim(Head(lines))
       IN (IF trimmed = <<>> THEN <<>> ELSE <<trimmed>>)
            \o toDecoder(Tail(lines))

\* JSON.parse(trimmed) returns instead of throwing
parsesAnything(trimmed) == TRUE

parses(trimmed) == trimmed = <<"R">>

\* handleMessage for the record "R", n times over
RECURSIVE handleRecords(_, _)
handleRecords(o, n) ==
  IF n = 0 THEN o ELSE handleRecords(onResult(capture(o, "tokA")), n - 1)

\* ------------------------------------------------ createSession (client.ts)
\* flushQuestion: the text it sends (after sendQuestion's own blank check)
flushes(c) == ~Blank(c.questionBuffer)

flushQuestionKeepsBuffer(c) == c

flushQuestion(c) ==
  IF flushes(c) THEN [c EXCEPT !.questionBuffer = <<>>] ELSE c

flushOut(c) ==
  IF flushes(c) THEN <<Ev("question", c.key, c.questionBuffer)>> ELSE <<>>

\* history: count the question messages a handler sent
NQ(o) == Cardinality({i \in 1 .. Len(o) : o[i].type = "question"})
Sent(c, o) == [c EXCEPT !.qSent = @ + NQ(o)]

\* session.on('message')
onMessage(c, text) ==
  LET rb == c.responseBuffer \o text
  IN IF containsQuestion(rb)
     THEN [c EXCEPT !.questionBuffer = rb, !.responseBuffer = <<>>,
                    !.questionTimeout = TRUE,
                    !.qSent = 0, !.fired = FALSE, !.quiet = TRUE, !.sawQ = TRUE,
                    !.resPending.late = FALSE]
     ELSE [c EXCEPT !.responseBuffer = rb, !.quiet = FALSE,
                    !.resPending.late = c.resPending.on]

\* session.on('result'), from "responseBuffer = ''" to the end
resultTail(c) == [c EXCEPT !.responseBuffer = <<>>, !.handledAskUser = FALSE,
                           !.resPending = NoRes]

resultOutWithNarrative(c, text, isError) ==
  IF c.handledAskUser THEN <<>>
  ELSE IF isError THEN <<Ev("failed", c.key, <<>>)>>
  ELSE IF ~Blank(c.responseBuffer \o text)
       THEN <<Ev("completion", c.key, c.responseBuffer \o text)>>
  ELSE <<>>

resultOut(c, text, isError) ==
  IF c.handledAskUser THEN <<>>
  ELSE IF isError THEN <<Ev("failed", c.key, <<>>)>>
  ELSE IF Truthy(text) /\ ~Blank(text) THEN <<Ev("completion", c.key, text)>>
  ELSE <<>>

\* the result handler suspends on a network call before its tail
resultSuspends(c) == flushes(c) \/ c.key \in originalMessages

\* ------------------------------------------------------------- environment
Emits(s) ==
  /\ s < nextId
  /\ proc[s].state = "running"
  /\ proc[s].pending > 0
  /\ events < MaxEvents

\* ----------------------------------------------------------------- actions
\* client.ts 61: message.author.bot
isBot(author) == author = "bot"

isAuthorizedAnyone(author) == TRUE

\* client.ts 36-40: the author holds the configured role or has the
\* configured user id
isAuthorized(author) == author \in {"bot"} \/ author = "owner"

\* client.ts 61-70: the guards that end the handler before anything is done;
\* project: getProjectByChannelId finds a project for the channel or for the
\* parent of the thread
ignores(author, project) == isBot(author) \/ ~isAuthorized(author) \/ ~project

abortsNever(running) == FALSE

\* client.ts 73: if (!running) { reply; return }
aborts(running) == ~running

clearTypingOfAll(k) == {}

\* client.ts 299-303: the result handler clears the typing interval of its key
clearTyping(k) == sessionTypingIntervals \ {k}

\* client.ts 102-114: get or create
needsSessionIfAbsent(k) == sessions[k] = None

needsSession(k) == sessions[k] = None \/ ~isAlive(sessions[k])

\* client.ts 143-148
SendTail(se, pr, k, s, text) ==
  /\ lastUserMessages' = [lastUserMessages EXCEPT ![k] =
                            [set |-> TRUE, text |-> text, resent |-> FALSE]]
  /\ IF canSend(se[s])
     THEN /\ sess' = [se EXCEPT ![s] = sendMessage(se[s])]
          /\ proc' = [pr EXCEPT ![s] = receive(pr[s])]
          /\ wr' = <<userRecord(s, se[s], text)>>
          /\ out' = <<>>
     ELSE /\ sess' = se
          /\ proc' = pr
          /\ wr' = <<>>
          /\ out' = <<Ev("sendFailed", k, <<>>)>>

\* client.ts 72-148: the handler from ensureContainerRunning on; name labels
\* the step
HandleMessage(name, k, text, hasAtt, running, inThread) ==
  /\ IF aborts(running)
     THEN /\ out' = <<Ev("notRunning", k, <<>>)>>
          /\ wr' = <<>>
          /\ act' = Act(name, None, k)
          /\ mc' = NoMc
          /\ UNCHANGED <<sess, proc, clo, nextId, sessions, sessionTypingIntervals,
                         lastUserMessages, originalMessages, projectThreads,
                         threads, orphanIntervals, web>>
     ELSE LET create == needsSession(k)
              s  == IF create THEN nextId ELSE sessions[k]
              se == IF create THEN [sess EXCEPT ![s] = start(FreshSess)] ELSE sess
              pr == IF create THEN [proc EXCEPT ![s] = spawn(FreshProc)] ELSE proc
          IN /\ create => nextId <= MaxSessions
             /\ act' = Act(name, s, k)
             /\ threads' = threads \cup {k}
             /\ UNCHANGED <<orphanIntervals, web>>
             /\ originalMessages' =
                  IF inThread THEN originalMessages ELSE originalMessages \cup {k}
             /\ projectThreads' = projectThreads \cup {k}
             /\ sessions' = [sessions EXCEPT ![k] = s]
             /\ nextId' = IF create THEN nextId + 1 ELSE nextId
             /\ clo' = IF create THEN [clo EXCEPT ![s] = FreshClo(k)] ELSE clo
             /\ sessionTypingIntervals' = sessionTypingIntervals \cup {k}
             /\ IF hasAtt
                THEN /\ mc' = [k |-> k, s |-> s, text |-> text]
                     /\ sess' = se
                     /\ proc' = pr
                     /\ out' = <<>>
                     /\ wr' = <<>>
                     /\ UNCHANGED lastUserMessages
                ELSE /\ mc' = NoMc
                     /\ SendTail(se, pr, k, s, text)

\* client.on(Events.MessageCreate) for a message that passed the guards of
\* client.ts 61-70
MessageCreate(k, text, hasAtt, running, inThread) ==
  /\ events < MaxEvents
  /\ mc = NoMc
  /\ inThread \/ k \notin threads
  /\ inThread \/ Truthy(text)   \* startThread takes a name of 1 to 100 characters
  /\ k \in threads \/ \A j \in Keys : KeyNo(j) < KeyNo(k) => j \in threads
  /\ events' = events + 1
  /\ HandleMessage("MessageCreate", k, text, hasAtt, running, inThread)

\* client.on(Events.MessageCreate): a chat message arrives; client.ts 61-70
\* return before anything else is done
Incoming(author, project, k) ==
  IF ignores(author, project)
  THEN /\ events < MaxEvents
       /\ mc = NoMc
       /\ events' = events + 1
       /\ act' = Act("MessageCreate", None, k)
       /\ out' = <<>>
       /\ wr' = <<>>
       /\ UNCHANGED <<sess, proc, clo, nextId, sessions, sessionTypingIntervals,
                      lastUserMessages, originalMessages, projectThreads,
                      threads, orphanIntervals, web, mc>>
  ELSE \E text \in UserTexts, hasAtt, running, inThread \in BOOLEAN :
         MessageCreate(k, text, hasAtt, running, inThread)

\* the handler resumes after the attachment uploads
MessageSend ==
  /\ mc.s # None
  /\ mc' = NoMc
  /\ act' = Act("MessageSend", mc.s, mc.k)
  /\ SendTail(sess, proc, mc.k, mc.s, mc.text)
  /\ UNCHANGED <<clo, nextId, sessions, sessionTypingIntervals, originalMessages,
                 projectThreads, threads, orphanIntervals, web, events>>

\* an assistant record with one text block
Delta(s, text, sid) ==
  /\ Emits(s)
  /\ Len(clo[s].responseBuffer) + Len(text) <= MaxBuf
  /\ events' = events + 1
  /\ sess' = [sess EXCEPT ![s] = capture(sess[s], sid)]
  /\ clo' = [clo EXCEPT ![s] = onMessage(clo[s], text)]
  /\ act' = Act("Delta", s, clo[s].key)
  /\ out' = <<>>
  /\ wr' = <<>>
  /\ UNCHANGED <<proc, nextId, sessions, sessionTypingIntervals, lastUserMessages,
                 originalMessages, projectThreads, threads, orphanIntervals, web, mc>>

\* the question debounce timer fires: flushQuestion
TimerFire(s) ==
  /\ s < nextId
  /\ clo[s].questionTimeout
  /\ out' = flushOut(clo[s])
  /\ clo' = [clo EXCEPT ![s] = [Sent(flushQuestion(clo[s]), out') EXCEPT
                                  !.questionTimeout = FALSE, !.fired = TRUE]]
  /\ act' = Act("TimerFire", s, clo[s].key)
  /\ wr' = <<>>
  /\ UNCHANGED <<sess, proc, nextId, sessions, sessionTypingIntervals,
                 lastUserMessages, originalMessages, projectThreads, threads,
                 orphanIntervals, web, mc, events>>

\* client.ts 315, 319: const lastMessage = lastUserMessages.get(sessionId);
\* if (lastMessage) { ... newSession.sendMessage(lastMessage) }
resendsNothing(last) == FALSE

resends(last) == last.set /\ Truthy(last.text)

\* client.ts 308-325: the overflow branch of the result handler.  se, pr are
\* the session objects and processes after the record itself was handled.
Overflow(s, se, pr) ==
  LET k    == clo[s].key
      n    == nextId
      last == lastUserMessages[k]
      send == resends(last)
      new  == start(FreshSess)
      np   == spawn(FreshProc)
  IN /\ nextId <= MaxSessions
     /\ nextId' = nextId + 1
     /\ clo' = [clo EXCEPT ![s] = [@ EXCEPT !.responseBuffer = <<>>,
                                            !.questionTimeout = FALSE,
                                            !.superseded = TRUE],
                           ![n] = FreshClo(k)]
     /\ sess' = [se EXCEPT ![s] = stop(se[s]),
                           ![n] = IF send THEN sendMessage(new) ELSE new]
     /\ wr' = IF send THEN <<userRecord(n, new, last.text)>> ELSE <<>>
     /\ proc' = [pr EXCEPT ![s] = kill(se[s], pr[s]),
                           ![n] = IF send THEN receive(np) ELSE np]
     /\ sessions' = [sessions EXCEPT ![k] = n]
     /\ sessionTypingIntervals' =
          IF send THEN sessionTypingIntervals \cup {k}
                  ELSE sessionTypingIntervals \ {k}
     /\ lastUserMessages' = [lastUserMessages EXCEPT ![k].resent = @ \/ send]
     /\ out' = <<>>

\* client.ts 328-353: normal finalization, up to the first network await or,
\* when nothing is awaited, to the end
Finalize(s, se, pr, text, isError) ==
  LET k == clo[s].key
      c == [flushQuestion(clo[s]) EXCEPT !.questionTimeout = FALSE,
                                         !.sawQ = FALSE]
  IN /\ sess' = se
     /\ proc' = pr
     /\ wr' = <<>>
     /\ sessionTypingIntervals' = clearTyping(k)
     /\ UNCHANGED <<nextId, sessions, lastUserMessages>>
     /\ IF resultSuspends(clo[s])
        THEN /\ out' = flushOut(clo[s])
             /\ clo' = [clo EXCEPT ![s] =
                          [Sent(c, out') EXCEPT !.resPending =
                             [on |-> TRUE, text |-> text, isError |-> isError,
                              sawQ |-> clo[s].sawQ, late |-> FALSE]]]
        ELSE /\ out' = flushOut(clo[s]) \o resultOut(c, text, isError)
             /\ clo' = [clo EXCEPT ![s] = Sent(resultTail(c), out')]

\* a result record: handleMessage case 'result', then session.on('result')
Result(s, text, isError, sid) ==
  /\ Emits(s)
  /\ ~clo[s].resPending.on
  /\ events' = events + 1
  /\ act' = Act("Result", s, clo[s].key)
  /\ LET se == [sess EXCEPT ![s] = onResult(capture(sess[s], sid))]
         pr == [proc EXCEPT ![s].pending = @ - 1]
     IN IF isContextOverflow(clo[s].responseBuffer \o text)
        THEN Overflow(s, se, pr)
        ELSE Finalize(s, se, pr, text, isError)
  /\ UNCHANGED <<originalMessages, projectThreads, threads, orphanIntervals, web, mc>>

\* the result handler resumes after its awaits
ResultFinish(s) ==
  /\ s < nextId
  /\ clo[s].resPending.on
  /\ clo' = [clo EXCEPT ![s] = resultTail(clo[s])]
  /\ out' = resultOut(clo[s], clo[s].resPending.text, clo[s].resPending.isError)
  /\ act' = Act("ResultFinish", s, clo[s].key)
  /\ wr' = <<>>
  /\ UNCHANGED <<sess, proc, nextId, sessions, sessionTypingIntervals,
                 lastUserMessages, originalMessages, projectThreads, threads,
                 orphanIntervals, web, mc, events>>

\* an assistant record with one tool_use block: session.on('toolUse').
\* kind: "tool" any other tool; "askEmpty" AskUserQuestion without parseable
\* questions; "askPlain" one question without options; "askOptions" one
\* question with options
handlesEveryAsk(kind) == kind # "tool"

\* client.ts 215-227: the tool is AskUserQuestion and input.questions is a
\* non-empty array
handles(kind) == kind \in {"askPlain", "askOptions"}

ToolUse(s, kind, sid) ==
  /\ Emits(s)
  /\ kind = "askOptions" => clo[s].choice = "none"
  /\ events' = events + 1
  /\ sess' = [sess EXCEPT ![s] = capture(sess[s], sid)]
  \* a question event without entries is labelled apart, for stating properties
  /\ act' = Act(IF kind = "askEmpty" THEN "ToolUseUnparsed" ELSE "ToolUse",
                s, clo[s].key)
  /\ wr' = <<>>
  /\ IF ~handles(kind)
     THEN /\ clo' = clo
          /\ out' = <<>>
     ELSE /\ clo' = [clo EXCEPT ![s] =
                       [@ EXCEPT !.responseBuffer = <<>>, !.questionBuffer = <<>>,
                                 !.handledAskUser = TRUE, !.questionTimeout = FALSE,
                                 !.quiet = FALSE,
                                 !.choice = IF kind = "askOptions" THEN "button" ELSE @]]
          /\ out' = <<Ev(IF kind = "askOptions" THEN "prompt" ELSE "toolQuestion",
                         clo[s].key, QText)>>
  /\ UNCHANGED <<proc, nextId, sessions, sessionTypingIntervals, lastUserMessages,
                 originalMessages, projectThreads, threads, orphanIntervals, web, mc>>

\* session.sendMessage(answer) inside the try of the choice wait; when it
\* throws, the catch block's sendMessage('skip') throws as well
Answer(s, text) ==
  IF canSend(sess[s])
  THEN /\ sess' = [sess EXCEPT ![s] = sendMessage(sess[s])]
       /\ proc' = [proc EXCEPT ![s] = receive(proc[s])]
       /\ wr' = <<userRecord(s, sess[s], text)>>
  ELSE /\ wr' = <<>>
       /\ UNCHANGED <<sess, proc>>

\* awaitMessageComponent resolves (a button) or times out
ChoiceButton(s, pick) ==
  /\ s < nextId
  /\ clo[s].choice = "button"
  /\ events < MaxEvents
  /\ events' = events + 1
  /\ act' = Act("ChoiceButton", s, clo[s].key)
  /\ out' = <<>>
  /\ CASE pick = "label"   -> /\ Answer(s, Label)
                              /\ clo' = [clo EXCEPT ![s].choice = "none"]
       [] pick = "other"   -> /\ UNCHANGED <<sess, proc>>
                              /\ wr' = <<>>
                              /\ clo' = [clo EXCEPT ![s].choice = "text"]
       [] pick = "timeout" -> /\ Answer(s, Skip)
                              /\ clo' = [clo EXCEPT ![s].choice = "none"]
  /\ UNCHANGED <<nextId, sessions, sessionTypingIntervals, lastUserMessages,
                 originalMessages, projectThreads, threads, orphanIntervals, web, mc>>

\* client.ts 274-278: the message the user types after 'Other' is an ordinary
\* chat message of the thread: the MessageCreate listener is called for it as
\* well as the collector of awaitMessages
typedAlsoHandled(answer) == Truthy(answer)

\* awaitMessages resolves: a typed answer, or the timeout (empty collection)
ChoiceText(s, answer) ==
  /\ s < nextId
  /\ clo[s].choice = "text"
  /\ events < MaxEvents
  /\ typedAlsoHandled(answer) => mc = NoMc
  /\ events' = events + 1
  /\ act' = Act("ChoiceText", s, clo[s].key)
  /\ out' = <<>>
  /\ Answer(s, IF Truthy(answer) THEN answer ELSE Skip)
  /\ clo' = [clo EXCEPT ![s].choice = "none"]
  /\ mc' = IF typedAlsoHandled(answer)
           THEN [k |-> clo[s].key, s |-> None, text |-> answer]
           ELSE mc
  /\ UNCHANGED <<nextId, sessions, sessionTypingIntervals, lastUserMessages,
                 originalMessages, projectThreads, threads, orphanIntervals, web>>

\* the MessageCreate handler of the typed answer, which was suspended in
\* ensureContainerRunning while the collector resolved, goes on
MessageResume(running) ==
  /\ mc.k \in Keys /\ mc.s = None
  /\ HandleMessage("MessageResume", mc.k, mc.text, FALSE, running, TRUE)
  /\ UNCHANGED events

\* the subprocess exits: process.on('exit') of the session, then
\* session.on('exit') up to its await
Exit(s, code) ==
  /\ s < nextId
  /\ proc[s].state = "running"
  /\ events < MaxEvents
  /\ events' = events + 1
  /\ proc' = [proc EXCEPT ![s] = [@ EXCEPT !.state = "exited", !.exitCode = code]]
  /\ sess' = [sess EXCEPT ![s] = onExit(sess[s])]
  /\ sessionTypingIntervals' = sessionTypingIntervals \ {clo[s].key}
  /\ act' = Act("Exit", s, clo[s].key)
  /\ wr' = <<>>
  /\ IF code \notin {"0", "null"}
     THEN /\ out' = <<Ev("fatal", clo[s].key, <<code>>)>>
          /\ clo' = [clo EXCEPT ![s].exitPending = TRUE]
          /\ UNCHANGED sessions
     ELSE /\ out' = <<>>
          /\ clo' = clo
          /\ sessions' = [sessions EXCEPT ![clo[s].key] = None]
  /\ UNCHANGED <<nextId, lastUserMessages, originalMessages, projectThreads,
                 threads, orphanIntervals, web, mc>>

ExitFinishKeepsEntry(s) ==
  /\ s < nextId
  /\ clo[s].exitPending
  /\ clo' = [clo EXCEPT ![s].exitPending = FALSE]
  /\ act' = Act("ExitFinish", s, clo[s].key)
  /\ out' = <<>>
  /\ wr' = <<>>
  /\ UNCHANGED <<sess, proc, nextId, sessions, sessionTypingIntervals,
                 lastUserMessages, originalMessages, projectThreads, threads,
                 orphanIntervals, web, mc, events>>

\* the exit handler resumes after the notice was sent: sessions.delete
ExitFinish(s) ==
  /\ s < nextId
  /\ clo[s].exitPending
  /\ clo' = [clo EXCEPT ![s].exitPending = FALSE]
  /\ sessions' = [sessions EXCEPT ![clo[s].key] = None]
  /\ act' = Act("ExitFinish", s, clo[s].key)
  /\ wr' = <<>>
  /\ out' = <<>>
  /\ UNCHANGED <<sess, proc, nextId, sessionTypingIntervals, lastUserMessages,
                 originalMessages, projectThreads, threads,
                 orphanIntervals, web, mc, events>>

\* the subprocess writes to its standard error: stderr.on('data') of the
\* session, then session.on('error'), which only logs to the console
Stderr(s) ==
  /\ s < nextId
  /\ proc[s].state = "running"
  /\ events < MaxEvents
  /\ events' = events + 1
  /\ sess' = [sess EXCEPT ![s] = onStderr(sess[s])]
  /\ act' = Act("Stderr", s, clo[s].key)
  /\ out' = <<>>
  /\ wr' = <<>>
  /\ UNCHANGED <<proc, clo, nextId, sessions, sessionTypingIntervals,
                 lastUserMessages, originalMessages, projectThreads, threads,
                 orphanIntervals, web, mc>>

\* client.ts 390, 403: sessionTypingIntervals.delete(id) removes the map entry
\* of a key without clearInterval: the timers of ks that were in the map keep
\* running
forgets(ks) == ks \cap sessionTypingIntervals

\* removeSession(threadId)
RemoveSession(k) ==
  /\ events < MaxEvents
  /\ events' = events + 1
  /\ act' = Act("RemoveSession", sessions[k], k)
  /\ wr' = <<>>
  /\ out' = <<>>
  /\ IF sessions[k] # None
     THEN LET s == sessions[k]
          IN /\ sess' = [sess EXCEPT ![s] = stop(sess[s])]
             /\ proc' = [proc EXCEPT ![s] = kill(sess[s], proc[s])]
             /\ sessions' = [sessions EXCEPT ![k] = None]
             /\ sessionTypingIntervals' = sessionTypingIntervals \ {k}
             /\ orphanIntervals' = orphanIntervals \cup forgets({k})
             /\ lastUserMessages' = [lastUserMessages EXCEPT ![k] = NoLast]
             /\ originalMessages' = originalMessages \ {k}
     ELSE UNCHANGED <<sess, proc, sessions, sessionTypingIntervals,
                      orphanIntervals, lastUserMessages, originalMessages>>
  /\ UNCHANGED <<clo, nextId, projectThreads, threads, web, mc>>

\* removeSession(projectChannelId): every tracked thread of the project
RemoveProject ==
  /\ projectThreads # {}
  /\ events < MaxEvents
  /\ events' = events + 1
  /\ act' = Act("RemoveProject", None, "none")
  /\ wr' = <<>>
  /\ out' = <<>>
  /\ sess' = [s \in SIds |->
                IF s < nextId /\ clo[s].key \in projectThreads
                   /\ sessions[clo[s].key] = s
                THEN stop(sess[s]) ELSE sess[s]]
  /\ proc' = [s \in SIds |->
                IF s < nextId /\ clo[s].key \in projectThreads
                   /\ sessions[clo[s].key] = s
                THEN kill(sess[s], proc[s]) ELSE proc[s]]
  /\ sessions' = [k \in Keys |-> IF k \in projectThreads THEN None ELSE sessions[k]]
  /\ sessionTypingIntervals' = sessionTypingIntervals \ projectThreads
  /\ orphanIntervals' = orphanIntervals \cup forgets(projectThreads)
  /\ lastUserMessages' = [k \in Keys |->
                            IF k \in projectThreads THEN NoLast
                            ELSE lastUserMessages[k]]
  /\ originalMessages' = originalMessages \ projectThreads
  /\ projectThreads' = {}
  /\ UNCHANGED <<clo, nextId, threads, web, mc>>

\* ------------------------------------------------------------ specification
Init ==
  /\ sess = [s \in SIds |-> FreshSess]
  /\ proc = [s \in SIds |-> FreshProc]
  /\ clo = [s \in SIds |-> FreshClo("none")]
  /\ nextId = 1
  /\ sessions = [k \in Keys |-> None]
  /\ sessionTypingIntervals = {}
  /\ lastUserMessages = [k \in Keys |-> NoLast]
  /\ originalMessages = {}
  /\ projectThreads = {}
  /\ threads = {}
  /\ orphanIntervals = {}
  /\ web = NoWeb
  /\ mc = NoMc
  /\ events = 0
  /\ act = Act("Init", None, "none")
  /\ out = <<>>
  /\ wr = <<>>

Next ==
  \/ \E author \in Authors, project \in BOOLEAN, k \in Keys :
       Incoming(author, project, k)
  \/ MessageSend
  \/ \E running \in BOOLEAN : MessageResume(running)
  \/ \E s \in SIds, text \in Deltas, sid \in {"tokA"} : Delta(s, text, sid)
  \/ \E s \in SIds, kind \in {"tool", "askEmpty", "askPlain", "askOptions"},
        sid \in {"tokA"} : ToolUse(s, kind, sid)
  \/ \E s \in SIds, text \in ResultTexts, isError \in BOOLEAN, sid \in {"tokA"} :
       Result(s, text, isError, sid)
  \/ \E s \in SIds : ResultFinish(s)
  \/ \E s \in SIds : TimerFire(s)
  \/ \E s \in SIds, pick \in {"label", "other", "timeout"} : ChoiceButton(s, pick)
  \/ \E s \in SIds, answer \in {<<>>, <<"w">>} : ChoiceText(s, answer)
  \/ \E s \in SIds, code \in ExitCodes : Exit(s, code)
  \/ \E s \in SIds : ExitFinish(s)
  \/ \E s \in SIds : Stderr(s)
  \/ \E k \in Keys : RemoveSession(k)
  \/ RemoveProject

Spec == Init /\ [][Next]_vars

\* ------------------------------------------- one ClaudeSession on its own
\* The public operations of one ClaudeSession object (session 1), called in
\* any order by an arbitrary caller, with the subprocess writing records and
\* exiting on its own.  out holds what the caller observes: the error thrown
\* or the event emitted.
TheSession == 1

InitSession ==
  /\ sess = [s \in SIds |-> FreshSess]
  /\ proc = [s \in SIds |-> FreshProc]
  /\ clo = [s \in SIds |-> FreshClo("none")]
  /\ nextId = TheSession + 1
  /\ sessions = [k \in Keys |-> None]
  /\ sessionTypingIntervals = {}
  /\ lastUserMessages = [k \in Keys |-> NoLast]
  /\ originalMessages = {}
  /\ projectThreads = {}
  /\ threads = {}
  /\ orphanIntervals = {}
  /\ web = NoWeb
  /\ mc = NoMc
  /\ events = 0
  /\ act = Act("new", TheSession, "none")
  /\ out = <<>>
  /\ wr = <<>>

ManagerVars == <<clo, nextId, sessions, sessionTypingIntervals,
                 lastUserMessages, originalMessages, projectThreads, threads,
                 orphanIntervals, web, mc>>

\* start(), on an object that has not spawned yet
SessionStart ==
  /\ events < MaxEvents
  /\ proc[TheSession].state = "none"
  /\ events' = events + 1
  /\ sess' = [sess EXCEPT ![TheSession] = start(@)]
  /\ proc' = [proc EXCEPT ![TheSession] = spawn(@)]
  /\ act' = Act("start", TheSession, "none")
  /\ out' = <<>>
  /\ wr' = <<>>
  /\ UNCHANGED ManagerVars

\* sendMessage(content)
SessionSend(content) ==
  /\ events < MaxEvents
  /\ events' = events + 1
  /\ act' = Act("sendMessage", TheSession, "none")
  /\ IF canSend(sess[TheSession])
     THEN /\ sess' = [sess EXCEPT ![TheSession] = sendMessage(@)]
          /\ proc' = [proc EXCEPT ![TheSession] = receive(@)]
          /\ wr' = <<userRecord(TheSession, sess[TheSession], content)>>
          /\ out' = <<>>
     ELSE /\ out' = <<Ev("NotStarted", "none", <<>>)>>
          /\ wr' = <<>>
          /\ UNCHANGED <<sess, proc>>
  /\ UNCHANGED ManagerVars

\* stop()
SessionStop ==
  /\ events < MaxEvents
  /\ events' = events + 1
  /\ sess' = [sess EXCEPT ![TheSession] = stop(@)]
  /\ proc' = [proc EXCEPT ![TheSession] = kill(sess[TheSession], @)]
  /\ act' = Act("stop", TheSession, "none")
  /\ out' = <<>>
  /\ wr' = <<>>
  /\ UNCHANGED ManagerVars

\* a stdout record of the subprocess: handleMessage
SessionRecord(type, sid) ==
  /\ Emits(TheSession)
  /\ events' = events + 1
  /\ act' = Act(type, TheSession, "none")
  /\ IF type = "result"
     THEN /\ sess' = [sess EXCEPT ![TheSession] = onResult(capture(@, sid))]
          /\ proc' = [proc EXCEPT ![TheSession].pending = @ - 1]
     ELSE /\ sess' = [sess EXCEPT ![TheSession] = capture(@, sid)]
          /\ proc' = proc
  /\ out' = <<Ev(type, "none", <<>>)>>
  /\ wr' = <<>>
  /\ UNCHANGED ManagerVars

\* the subprocess ends: process.on('exit')
SessionExit(code) ==
  /\ events < MaxEvents
  /\ proc[TheSession].state = "running"
  /\ events' = events + 1
  /\ proc' = [proc EXCEPT ![TheSession] =
                [@ EXCEPT !.state = "exited", !.exitCode = code]]
  /\ sess' = [sess EXCEPT ![TheSession] = onExit(@)]
  /\ act' = Act("exit", TheSession, "none")
  /\ out' = <<Ev("exit", "none", <<code>>)>>
  /\ wr' = <<>>
  /\ UNCHANGED ManagerVars

NextSession ==
  \/ SessionStart
  \/ \E content \in UserTexts : SessionSend(content)
  \/ SessionStop
  \/ \E type \in {"message", "result"}, sid \in RecSids : SessionRecord(type, sid)
  \/ \E code \in ExitCodes : SessionExit(code)

SpecSession == InitSession /\ [][NextSession]_vars

\* ----------------------------------- one ClaudeSession reading raw output
\* The same object with its standard output modelled byte by byte: the
\* subprocess writes any bytes, delivered in chunks of any size.
Chunks(n) == [1 .. n -> Bytes]

\* stdout.on('data'): this.buffer += data.toString(); this.processBuffer()
SessionData(data) ==
  LET o == sess[TheSession]
      lines == SplitLines(o.buffer \o toString(data))
      got == toDecoder(Front(lines))
      n == Len(SelectSeq(got, parses))
  IN /\ events < MaxEvents
     /\ proc[TheSession].state = "running"
     /\ Len(proc[TheSession].stdout) + Len(data) <= MaxInput
     /\ events' = events + 1
     /\ sess' = [sess EXCEPT ![TheSession] =
                   [handleRecords(o, n) EXCEPT !.buffer = Last(lines),
                                               !.lines = @ \o got]]
     /\ proc' = [proc EXCEPT ![TheSession] =
                   [@ EXCEPT !.stdout = @ \o data,
                             !.pending = IF @ > n THEN @ - n ELSE 0]]
     /\ out' = [i \in 1 .. n |-> Ev("result", "none", <<>>)]
     /\ act' = Act("data", TheSession, "none")
     /\ wr' = <<>>
     /\ UNCHANGED ManagerVars

NextFramer ==
  \/ SessionStart
  \/ SessionSend(<<"u">>)
  \/ SessionStop
  \/ \E n \in 1 .. MaxInput - Len(proc[TheSession].stdout) :
        \E data \in Chunks(n) : SessionData(data)

SpecFramer == InitSession /\ [][NextFramer]_vars

\* ------------------------------------- the message listener on its own
\* One closure (session 1) receives text deltas of every content up to MaxBuf
\* characters; the debounce timer may fire in between.
Chars == {"a", "?", " ", "\n"}
DeltaTexts == UNION {[1 .. n -> Chars] : n \in 0 .. MaxBuf}

\* session.on('message') of the closure of session 1; the history field stdout
\* keeps the text of the delta
Message(text) ==
  /\ Len(clo[TheSession].responseBuffer) + Len(text) <= MaxBuf
  /\ clo' = [clo EXCEPT ![TheSession] = onMessage(@, text)]
  /\ proc' = [proc EXCEPT ![TheSession].stdout = text]
  /\ act' = Act("message", TheSession, "none")
  /\ out' = <<>>
  /\ wr' = <<>>
  /\ UNCHANGED <<sess, nextId, sessions, sessionTypingIntervals,
                 lastUserMessages, originalMessages, projectThreads, threads,
                 orphanIntervals, web, mc, events>>

NextMessage ==
  \/ \E text \in DeltaTexts : Message(text)
  \/ TimerFire(TheSession)

SpecMessage == InitSession /\ [][NextMessage]_vars

\* ------------------------------------------- startBot (src/index.ts)
\* The manager is idle; only the process around it acts.
BridgeVars == <<sess, proc, clo, nextId, sessions, sessionTypingIntervals,
                lastUserMessages, originalMessages, projectThreads, threads,
                orphanIntervals, mc, events, wr>>

InitIdle ==
  /\ sess = [s \in SIds |-> FreshSess]
  /\ proc = [s \in SIds |-> FreshProc]
  /\ clo = [s \in SIds |-> FreshClo("none")]
  /\ nextId = 1
  /\ sessions = [k \in Keys |-> None]
  /\ sessionTypingIntervals = {}
  /\ lastUserMessages = [k \in Keys |-> NoLast]
  /\ originalMessages = {}
  /\ projectThreads = {}
  /\ threads = {}
  /\ orphanIntervals = {}
  /\ mc = NoMc
  /\ events = 0
  /\ act = Act("Init", None, "none")
  /\ out = <<>>
  /\ wr = <<>>

\* isSetupComplete() is true or false when the process starts
InitBoot == InitIdle /\ \E sc \in BOOLEAN : web = [NoWeb EXCEPT !.setupComplete = sc]

\* index.ts 16: if (botRunning) return
alreadyRunning(w) == w.botRunning

\* index.ts 15-22: startBot up to its first await
startBot(w, c) ==
  [w EXCEPT !.pc[c] = IF alreadyRunning(w) THEN "returned" ELSE "image"]

\* index.ts 30-48: createClient, the listeners, client.login is called
createClient(w, c) == [w EXCEPT !.clients = @ + 1, !.pc[c] = "login"]

\* a rejected await: startBot throws; main().catch exits the process, the
\* route handler of POST /save only logs
throws(w, c) == [w EXCEPT !.pc[c] = "failed", !.alive = (c # 1)]

BootStep(name, c) ==
  /\ act' = Act(name, c, "none")
  /\ out' = <<>>
  /\ UNCHANGED BridgeVars

\* index.ts 63-65: main() calls startBot when setup is complete at startup
Main ==
  /\ web.alive /\ web.setupComplete
  /\ \A c \in Calls : web.pc[c] = "none"
  /\ web' = startBot(web, 1)
  /\ BootStep("main", 1)

\* web/routes/setup.ts POST /save, valid body: setupComplete = true, then
\* await onComplete(), which is startBot
Save(c) ==
  /\ web.alive /\ c > 1
  /\ web.pc[c] = "none"
  /\ \A b \in Calls : (1 < b /\ b < c) => web.pc[b] # "none"
  /\ web' = startBot([web EXCEPT !.setupComplete = TRUE], c)
  /\ BootStep("save", c)

\* index.ts 22-30: imageExists() resolves
ImageExists(c, hasImage) ==
  /\ web.alive /\ web.pc[c] = "image"
  /\ web' = IF hasImage THEN createClient(web, c) ELSE [web EXCEPT !.pc[c] = "build"]
  /\ BootStep("imageExists", c)

\* index.ts 25-30: buildImage() resolves or rejects
BuildImage(c, ok) ==
  /\ web.alive /\ web.pc[c] = "build"
  /\ web' = IF ok THEN createClient(web, c) ELSE throws(web, c)
  /\ BootStep("buildImage", c)

\* index.ts 48-50: client.login resolves (botRunning = true) or rejects
Login(c, ok) ==
  /\ web.alive /\ web.pc[c] = "login"
  /\ web' = IF ok THEN [web EXCEPT !.logins = @ + 1, !.botRunning = TRUE,
                                   !.pc[c] = "done"]
                  ELSE throws(web, c)
  /\ BootStep("login", c)

NextBoot ==
  \/ Main
  \/ \E c \in Calls : Save(c)
  \/ \E c \in Calls, hasImage \in BOOLEAN : ImageExists(c, hasImage)
  \/ \E c \in Calls, ok \in BOOLEAN : BuildImage(c, ok)
  \/ \E c \in Calls, ok \in BOOLEAN : Login(c, ok)

SpecBoot == InitBoot /\ [][NextBoot]_vars

\* --------------------------------------- pending downloads (web/server.ts)
InitDownloads == InitIdle /\ web = NoWeb

\* server.ts GET /download/:id: Date.now() > dl.expiresAt
expiredNever(dl, now) == FALSE

expired(dl, now) == now > dl.expiresAt

\* addDownload(filename, data): purge the expired entries, add one under a
\* fresh id
AddDownload ==
  /\ web.nextDl <= MaxDownloads
  /\ web' = [web EXCEPT
               !.downloads = [i \in DlIds |->
                  IF i = web.nextDl
                  THEN [on |-> TRUE, addedAt |-> web.now,
                        expiresAt |-> web.now + ExpiryTicks]
                  ELSE IF web.downloads[i].on /\ expired(web.downloads[i], web.now)
                       THEN NoDownload
                       ELSE web.downloads[i]],
               !.nextDl = @ + 1]
  /\ act' = Act("addDownload", web.nextDl, "none")
  /\ out' = <<>>
  /\ UNCHANGED BridgeVars

\* GET /download/:id
GetDownload(id) ==
  LET dl == web.downloads[id]
  IN /\ act' = Act("GetDownload", id, "none")
     /\ IF ~dl.on \/ expired(dl, web.now)
        THEN /\ web' = [web EXCEPT !.downloads[id] = NoDownload]
             /\ out' = <<Ev("404", "none", <<>>)>>
        ELSE /\ web' = [web EXCEPT !.downloads[id] = NoDownload,
                                   !.served[id] = @ + 1]
             /\ out' = <<Ev("sent", "none", <<>>)>>
     /\ UNCHANGED BridgeVars

\* time passes
Tick ==
  /\ web.now < MaxTime
  /\ web' = [web EXCEPT !.now = @ + 1]
  /\ act' = Act("tick", None, "none")
  /\ out' = <<>>
  /\ UNCHANGED BridgeVars

NextDownloads ==
  \/ AddDownload
  \/ \E id \in DlIds : GetDownload(id)
  \/ Tick

SpecDownloads == InitDownloads /\ [][NextDownloads]_vars

\* ------------------------------------------------------------------ claims
Created(s) == s < nextId

\* the subprocess of a session that was not stopped is still running
Running(s) == sess[s].process /\ proc[s].state = "running"

\* a step of the result handler that took the overflow branch for session s
OverflowStep(s) == act'.name = "Result" /\ act'.s = s /\ nextId' = nextId + 1

FatalExitStep(s) ==
  /\ act'.name = "Exit" /\ act'.s = s
  /\ proc'[s].exitCode \notin {"0", "null"}

\* C2: a nonzero, non-null exit of a session that was not superseded by
\* overflow recovery sends exactly one fatal-exit notice; no other step sends
\* one; when the exit handler has finished the key has no registry entry; and
\* an inbound message for a key without entry constructs a fresh session.
C2_FatalExit ==
  [][/\ \A s \in SIds :
          /\ (FatalExitStep(s) /\ ~clo[s].superseded) =>
                /\ out' = <<Ev("fatal", clo[s].key, <<proc'[s].exitCode>>)>>
                /\ clo'[s].exitPending
          /\ (act'.name = "ExitFinish" /\ act'.s = s) =>
                sessions'[clo[s].key] = None
     /\ (\E i \in 1 .. Len(out') : out'[i].type = "fatal") => act'.name = "Exit"
     /\ \A k \in Keys :
          (act'.name = "MessageCreate" /\ act'.k = k /\ act'.s # None
             /\ sessions[k] = None) =>
            /\ act'.s = nextId
            /\ sessions'[k] = nextId
            /\ proc[nextId].state = "none" /\ proc'[nextId].state = "running"]_vars

\* the exit handler of a session that exited with 137 has finished
C2_Witness ==
  \E s \in SIds :
    /\ Created(s)
    /\ act.name = "ExitFinish" /\ act.s = s
    /\ proc[s].exitCode = "137"
    /\ ~clo[s].superseded
    /\ sessions[clo[s].key] = None

\* the session registered under k answers isAlive() with true
RegisteredAlive(k) ==
  /\ sessions[k] # None
  /\ sess[sessions[k]].process
  /\ proc[sessions[k]].exitCode = "null"

Spawned(s) == proc[s].state = "none" /\ proc'[s].state = "running"

\* C3: the MessageCreate handler constructs, starts and registers a new
\* session exactly when the registry has no session for the key or the
\* registered one is not alive; otherwise it spawns nothing and keeps the
\* registered session.  The message goes to that session (sendMessage is
\* called on it, at once or after the attachment uploads).
C3_GetOrCreate ==
  [][/\ \A k \in Keys :
          (act'.name = "MessageCreate" /\ act'.k = k /\ act'.s # None) =>
            /\ IF RegisteredAlive(k)
               THEN /\ act'.s = sessions[k]
                    /\ nextId' = nextId
                    /\ \A s \in SIds : ~Spawned(s)
               ELSE /\ act'.s = nextId
                    /\ nextId' = nextId + 1
                    /\ \A s \in SIds : Spawned(s) <=> s = nextId
                    /\ sess'[nextId].process
            /\ sessions'[k] = act'.s
            /\ \/ /\ mc' = mc
                  /\ Len(wr') = 1 /\ wr'[1].s = act'.s
                  /\ wr'[1].content = lastUserMessages'[k].text
               \/ /\ mc' # NoMc /\ mc'.s = act'.s /\ mc'.k = k
                  /\ wr' = <<>>
     /\ act'.name = "MessageSend" =>
          IF sess[mc.s].process
          THEN Len(wr') = 1 /\ wr'[1].s = mc.s /\ wr'[1].content = mc.text
          ELSE wr' = <<>> /\ out' = <<Ev("sendFailed", mc.k, <<>>)>>]_vars

\* a second message reached the live registered session: nothing was spawned
C3_Witness ==
  \E k \in Keys :
    /\ act.name = "MessageCreate" /\ act.k = k
    /\ act.s = 1 /\ nextId = 2 /\ sessions[k] = 1
    /\ events >= 2
    /\ Len(wr) = 1 /\ wr[1].s = 1
    /\ sess[1].sessionId = "tokA"

\* C4: every session whose subprocess is alive is the session registered
\* under its key.
C4_AliveIsRegistered ==
  \A s \in SIds : (Created(s) /\ Running(s)) => sessions[clo[s].key] = s

\* the exit of a superseded session removed the entry of its running successor
C4_Witness ==
  \E s, n \in SIds :
    /\ Created(n) /\ Running(n) /\ clo[n].key = clo[s].key
    /\ clo[s].superseded /\ proc[s].state = "exited"
    /\ sessions[clo[n].key] = None

\* C5: a text delta that arrives while the question flush is scheduled keeps
\* the flush scheduled and is added to the pending question, so that the one
\* question message holds the whole accumulated text.
C5_DeltasJoinQuestion ==
  [][\A s \in SIds, text \in Deltas :
       (Delta(s, text, "tokA") /\ clo[s].questionTimeout) =>
          /\ clo'[s].questionTimeout
          /\ clo'[s].questionBuffer = clo[s].questionBuffer \o text]_vars

\* C6: once the debounce timer of a question-ending delta has fired with no
\* delta in between, exactly one question message was sent for it, also after
\* the turn's result arrived, and the narrative accumulator is empty; the
\* firing itself sends that one message, holding the pending question text.
C6_OneQuestion ==
  /\ [](\A s \in SIds :
          (Created(s) /\ clo[s].fired /\ clo[s].quiet) =>
             /\ clo[s].qSent = 1
             /\ clo[s].responseBuffer = <<>>
             /\ clo[s].questionBuffer = <<>>)
  /\ [][\A s \in SIds :
          (act'.name = "TimerFire" /\ act'.s = s) =>
             /\ clo[s].questionBuffer # <<>>
             /\ out' = <<Ev("question", clo[s].key, clo[s].questionBuffer)>>]_vars

\* the question was flushed by the timer and the turn's result came later
C6_Witness ==
  \E s \in SIds :
    /\ Created(s) /\ clo[s].fired /\ clo[s].quiet
    /\ act.name = "Result" /\ act.s = s
    /\ ~clo[s].superseded
    /\ clo[s].qSent = 1

\* a step in which the result handler of s runs its tail (lines 340-348)
\* for the result text and error flag given
Finalizes(s, text, isError) ==
  \/ /\ act'.name = "Result" /\ act'.s = s /\ ~clo'[s].resPending.on
     /\ ~isContextOverflow(clo[s].responseBuffer \o text)
     /\ \E sid \in {"tokA"} : Result(s, text, isError, sid)
  \/ /\ act'.name = "ResultFinish" /\ act'.s = s
     /\ clo[s].resPending.text = text /\ clo[s].resPending.isError = isError

TurnSawQ(s) ==
  IF act'.name = "ResultFinish" THEN clo[s].resPending.sawQ ELSE clo[s].sawQ

TextEvent(e) == e.type \in {"question", "completion", "failed"}

C8_SendNotStarted ==
  [][(act'.name = "sendMessage" /\ ~sess[TheSession].process) =>
        /\ out' = <<Ev("NotStarted", "none", <<>>)>>
        /\ wr' = <<>>
        /\ proc' = proc
        /\ sess' = sess
        /\ ~isBusy(TheSession)']_vars

\* sendMessage was refused after stop() with a turn still unanswered
C8_Witness ==
  /\ act.name = "sendMessage"
  /\ out = <<Ev("NotStarted", "none", <<>>)>>
  /\ proc[TheSession].state = "running"
  /\ proc[TheSession].signalled
  /\ proc[TheSession].pending > 0
  /\ ~isBusy(TheSession)

\* C9: in every reachable state isBusy() is true exactly when an input record
\* was sent that no result record has answered yet (a stop or an exit ends
\* the turns of the Session).
C9_BusyIffOutstanding ==
  \A s \in SIds : Created(s) => (isBusy(s) <=> sess[s].turns > 0)

\* C10: in every reachable state isAlive() is true exactly when the
\* subprocess was started and has not ended, however it ends (stop() counts
\* as its end from the call on).
C10_AliveIffRunning ==
  \A s \in SIds :
    Created(s) =>
      (isAlive(s) <=> (proc[s].state = "running" /\ ~proc[s].signalled))

\* C11: no user record is written to the subprocess of a session while an
\* earlier user record written to it has not been answered by a result
\* record.
C11_OneOutstandingTurn ==
  [][\A i \in 1 .. Len(wr') : sess[wr'[i].s].turns = 0]_vars

\* C12: every result record handled by the Session makes it emit exactly one
\* result event and takes it from busy to not busy in that one step.
C12_ResultOnce ==
  [][act'.name = "result" =>
        /\ out' = <<Ev("result", "none", <<>>)>>
        /\ isBusy(TheSession)
        /\ ~isBusy(TheSession)']_vars

\* the lines handed to the decoder by the step
NewLines == SubSeq(sess'[TheSession].lines, Len(sess[TheSession].lines) + 1,
                   Len(sess'[TheSession].lines))

\* C13: a line that is not a JSON record produces no event and leaves the
\* token, the busy flag and the liveness of the Session as they were, and
\* the lines after it are still processed: a data step emits one event per
\* parseable line it completed, and if none of them parses it emits nothing
\* and changes neither token, busy flag nor liveness.
C13_MalformedLineSkipped ==
  [][act'.name = "data" =>
       /\ Len(out') = Cardinality({i \in 1 .. Len(NewLines) : NewLines[i] = <<"R">>})
       /\ (\A i \in 1 .. Len(NewLines) : NewLines[i] # <<"R">>) =>
            /\ out' = <<>>
            /\ sess'[TheSession].sessionId = sess[TheSession].sessionId
            /\ sess'[TheSession].busy = sess[TheSession].busy
            /\ sess'[TheSession].process = sess[TheSession].process
            /\ isAlive(TheSession)' = isAlive(TheSession)
            /\ proc'[TheSession].pending = proc[TheSession].pending]_vars

\* a malformed line left a busy Session untouched, and the record on the
\* line after it was handled
C13_Witness ==
  /\ act.name = "data"
  /\ sess[TheSession].lines = <<<<"x">>, <<"R">>>>
  /\ proc[TheSession].stdout = <<"x", "\n", "R", "\n">>
  /\ events = 3
  /\ out = <<Ev("result", "none", <<>>)>>
  /\ ~isBusy(TheSession)
  /\ sess[TheSession].sessionId = "tokA"

\* C14: however the output is cut into chunks, the lines handed to the
\* decoder are the newline-terminated lines of the whole output, trimmed,
\* blank ones dropped, in order and once each, and the buffer holds the
\* trailing fragment.
C14_SameLinesForEverySplit ==
  sess[TheSession].process =>
    LET whole == SplitLines(toString(proc[TheSession].stdout))
    IN /\ sess[TheSession].lines = toDecoder(Front(whole))
       /\ sess[TheSession].buffer = Last(whole)

\* C20: stop() on a started Session signals the subprocess and, in the same
\* step and with the process still running, leaves the Session without
\* process object, token unset, framing buffer empty and busy flag false;
\* stop() on a Session without process object changes nothing.
C20_StopClears ==
  [][act'.name = "stop" =>
       IF sess[TheSession].process
       THEN /\ proc'[TheSession].signalled
            /\ proc'[TheSession].state = proc[TheSession].state
            /\ ~sess'[TheSession].process
            /\ sess'[TheSession].sessionId = "null"
            /\ sess'[TheSession].buffer = <<>>
            /\ ~isBusy(TheSession)'
       ELSE sess' = sess /\ proc' = proc]_vars

\* stop() hit a busy Session that held a token and an unfinished line
C20_Witness ==
  /\ act.name = "stop"
  /\ proc[TheSession].signalled
  /\ proc[TheSession].state = "running"
  /\ proc[TheSession].stdout = <<"R", "\n", "x">>
  /\ sess[TheSession].lines = <<<<"R">>>>
  /\ proc[TheSession].pending > 0
  /\ sess[TheSession].buffer = <<>>
  /\ sess[TheSession].sessionId = "null"

\* C15: the records of one session are handled one after the other: no
\* record of a session is handled while the handler of an earlier record of
\* that session still has effects to produce (a result handler suspended
\* before its completion notice, a choice prompt whose answer is not sent).
C15_RecordsInOrder ==
  [][\A s \in SIds :
       (act'.s = s /\ act'.name \in {"Delta", "ToolUse", "ToolUseUnparsed", "Result"}) =>
          /\ ~clo[s].resPending.on
          /\ clo[s].choice = "none"]_vars

NFailed(o) == Cardinality({i \in 1 .. Len(o) : o[i].type = "failed"})

\* C16: a result record with is_error = true and no overflow marker in the
\* turn text is finalized with exactly one failed-turn notice, and a session
\* that was registered and alive stays registered and alive.
C16_ErrorResultNotice ==
  [][\A s \in SIds, text \in ResultTexts :
       Finalizes(s, text, TRUE) =>
          /\ NFailed(out') = 1
          /\ (sessions[clo[s].key] = s /\ isAlive(s)) =>
                (sessions'[clo[s].key] = s /\ isAlive(s)')]_vars

Notice(e) == e.type \in {"completion", "failed", "question", "fatal"}

\* C17: overflow recovery is silent: neither the step that detects the
\* overflow nor any later step of the stopped session delivers a completion
\* notice, a failed-turn notice, a question message or a fatal-exit notice.
C17_SilentOverflow ==
  [][\A s \in SIds :
       (act'.s = s /\ clo'[s].superseded) =>
          \A i \in 1 .. Len(out') : ~Notice(out'[i])]_vars

\* key k has no entry in the registry nor in a side table
Absent(k) ==
  /\ sessions[k] = None
  /\ k \notin sessionTypingIntervals
  /\ ~lastUserMessages[k].set
  /\ k \notin originalMessages

\* C18: removeSession leaves the registered session of the key stopped and
\* the key without entry in the registry and the side tables, and a key
\* without entries keeps none until a MessageCreate handler accepts a message
\* for it.
C18_RemovedStaysRemoved ==
  [][\A k \in Keys :
       /\ (sessions[k] # None
             /\ \/ act'.name = "RemoveSession" /\ act'.k = k
                \/ act'.name = "RemoveProject" /\ k \in projectThreads) =>
            /\ Absent(k)'
            /\ ~sess'[sessions[k]].process
       /\ (Absent(k) /\ ~(act'.name = "MessageCreate" /\ act'.k = k)) =>
            Absent(k)']_vars

\* the session was stopped, or its subprocess has exited
TornDown(s) == Created(s) /\ (~sess[s].process \/ proc[s].state = "exited")

\* C19: after a session is torn down no debounce timer of it fires and no
\* choice wait of it ends in a sendMessage call.
C19_NoTimerAfterTeardown ==
  [][\A s \in SIds :
       (TornDown(s) /\ act'.s = s) =>
          act'.name \notin {"TimerFire", "ChoiceButton", "ChoiceText"}]_vars

\* C21: the session token is the first non-placeholder session_id received,
\* and every user record written carries the token, or "default" while no
\* token is held.
C21_FirstTokenKept ==
  [][/\ sess'[TheSession].sessionId = sess'[TheSession].first
     /\ \A i \in 1 .. Len(wr') :
          wr'[i].session_id = IF sess[TheSession].first = "null" THEN "default"
                              ELSE sess[TheSession].first]_vars

\* C21 as amended: the token is unset after start; every record carrying a
\* session_id other than the placeholder replaces the token by that
\* session_id, any other record leaves it alone; every user record written
\* carries the token held at that moment, or "default" while none is held.
C21_LatestToken ==
  [][/\ act'.name = "start" => sess'[TheSession].sessionId = "null"
     /\ \A type \in {"message", "result"}, sid \in RecSids :
          SessionRecord(type, sid) =>
             sess'[TheSession].sessionId =
                IF sid \in {"absent", "default"} THEN sess[TheSession].sessionId
                ELSE sid
     /\ act'.name = "sendMessage" =>
          IF sess[TheSession].process
          THEN /\ Len(wr') = 1
               /\ wr'[1].session_id =
                    IF sess[TheSession].sessionId = "null" THEN "default"
                    ELSE sess[TheSession].sessionId
          ELSE wr' = <<>>]_vars

\* a user record is written with the token captured from an earlier record
C21_Witness ==
  /\ act.name = "sendMessage"
  /\ Len(wr) = 1
  /\ wr[1].session_id = "tokB"
  /\ sess[TheSession].sessionId = "tokB"
  /\ sess[TheSession].turns = 2

\* C22: when the container cannot be guaranteed to run, the MessageCreate
\* handler replies with the error and does nothing else: no session is
\* created or registered, no side table and no timer changes, nothing is
\* written to a subprocess.
C22_NotRunningAborts ==
  [][act'.name = "MessageCreate" =>
       \A text \in UserTexts, hasAtt, inThread \in BOOLEAN :
          MessageCreate(act'.k, text, hasAtt, FALSE, inThread) =>
             /\ out' = <<Ev("notRunning", act'.k, <<>>)>>
             /\ wr' = <<>>
             /\ UNCHANGED <<sess, proc, clo, nextId, sessions,
                            sessionTypingIntervals, lastUserMessages,
                            originalMessages, projectThreads, threads,
                            orphanIntervals, web, mc>>]_vars

\* a message for a key with a live session was refused because the
\* container was not running
C22_Witness ==
  /\ act.name = "MessageCreate" /\ act.s = None
  /\ out = <<Ev("notRunning", act.k, <<>>)>>
  /\ sessions[act.k] # None
  /\ isAlive(sessions[act.k])
  /\ isBusy(sessions[act.k])

\* C23: a subprocess is spawned only by a MessageCreate handler whose
\* request that the container be running succeeded.
C23_StartAfterCheck ==
  [][\A s \in SIds :
       Spawned(s) =>
          \E k \in Keys, text \in UserTexts, hasAtt, inThread \in BOOLEAN :
             MessageCreate(k, text, hasAtt, TRUE, inThread)]_vars

\* C24: every choice wait that ends writes exactly one user record to the
\* session that asked: the label, the typed answer or "skip".
C24_ChoiceAnswered ==
  [][\A s \in SIds :
       (clo[s].choice # "none" /\ clo'[s].choice = "none") =>
          /\ Len(wr') = 1
          /\ wr'[1].s = s
          /\ wr'[1].content \in {Label, <<"w">>, Skip}]_vars

\* C25: an AskUserQuestion tool event without question entries shows no
\* prompt, sends nothing to the session and leaves responseBuffer,
\* questionBuffer, the debounce timer and the rest of the closure unchanged.
C25_UnparsedAskIgnored ==
  [][\A s \in SIds, sid \in {"tokA"} :
       ToolUse(s, "askEmpty", sid) =>
          /\ out' = <<>>
          /\ wr' = <<>>
          /\ clo' = clo
          /\ sess'[s].busy = sess[s].busy
          /\ proc' = proc]_vars

\* an AskUserQuestion event without questions arrived while a question was
\* waiting for its debounce timer
C25_Witness ==
  \E s \in SIds :
    /\ Created(s)
    /\ act = Act("ToolUseUnparsed", s, clo[s].key)
    /\ out = <<>>
    /\ clo[s].questionTimeout
    /\ clo[s].questionBuffer = <<"a", "?">>
    /\ ~clo[s].handledAskUser
    /\ isBusy(s)

\* C26: every tool event other than AskUserQuestion sends exactly one notice
\* to the chat in the step that handles it.
C26_ToolNotice ==
  [][\A s \in SIds, sid \in {"tokA"} :
       ToolUse(s, "tool", sid) =>
          /\ Len(out') = 1
          /\ out'[1].type = "toolNotice"]_vars

\* the message would be refused by the guards
Refused(author, project) == author \in {"bot", "stranger"} \/ ~project

\* C27: a message of a bot, of an unauthorized author or outside a project
\* channel creates no session, writes nothing to a subprocess and changes no
\* registry or side-table state.
C27_OnlyAuthorized ==
  [][act'.name = "MessageCreate" =>
       \A author \in Authors, project \in BOOLEAN :
          (Refused(author, project) /\ Incoming(author, project, act'.k)) =>
             /\ wr' = <<>>
             /\ out' = <<>>
             /\ UNCHANGED <<sess, proc, clo, nextId, sessions,
                            sessionTypingIntervals, lastUserMessages,
                            originalMessages, projectThreads, threads,
                            orphanIntervals, web, mc>>]_vars

\* a refused message arrived for a key whose session is live and busy
C27_Witness ==
  /\ act.name = "MessageCreate" /\ act.s = None
  /\ out = <<>>
  /\ sessions[act.k] # None
  /\ isAlive(sessions[act.k])
  /\ isBusy(sessions[act.k])
  /\ events = 2

\* the steps of the listeners of one session
SessionEvent ==
  {"Delta", "ToolUse", "ToolUseUnparsed", "Result", "ResultFinish", "TimerFire",
   "ChoiceButton",
   "ChoiceText", "Exit", "ExitFinish", "Stderr"}

\* C28: a step of a listener of a session of key A leaves the registry entry,
\* the side-table entries, and every session object, subprocess and closure
\* of any other key B unchanged.
C28_KeysIndependent ==
  [][\A s \in SIds :
       (Created(s) /\ act'.s = s /\ act'.name \in SessionEvent) =>
          \A b \in Keys \ {clo[s].key} :
             /\ sessions'[b] = sessions[b]
             /\ (b \in sessionTypingIntervals') = (b \in sessionTypingIntervals)
             /\ lastUserMessages'[b] = lastUserMessages[b]
             /\ (b \in originalMessages') = (b \in originalMessages)
             /\ \A x \in SIds :
                  (Created(x) /\ clo[x].key = b) =>
                     /\ clo'[x] = clo[x]
                     /\ sess'[x] = sess[x]
                     /\ proc'[x] = proc[x]]_vars

\* the result of a turn of one key was handled while the other key had a
\* busy session with its typing interval running
C28_Witness ==
  /\ act.name = "Result" /\ act.k = "k1"
  /\ "k1" \notin sessionTypingIntervals
  /\ sessions["k2"] # None
  /\ isBusy(sessions["k2"])
  /\ "k2" \in sessionTypingIntervals

\* C29: output on the standard error of a subprocess leaves the session
\* started, its busy flag and token unchanged, the registry unchanged, and
\* sends nothing to the chat.
C29_StderrHarmless ==
  [][\A s \in SIds :
       (act'.name = "Stderr" /\ act'.s = s) =>
          /\ sess'[s].process = sess[s].process
          /\ isAlive(s)' = isAlive(s)
          /\ isBusy(s)' = isBusy(s)
          /\ sess'[s].sessionId = sess[s].sessionId
          /\ sessions' = sessions
          /\ out' = <<>>
          /\ wr' = <<>>]_vars

\* stderr output arrived from the registered session in the middle of a turn
C29_Witness ==
  \E s \in SIds :
    /\ act = Act("Stderr", s, clo[s].key)
    /\ sessions[clo[s].key] = s
    /\ isBusy(s)
    /\ isAlive(s)
    /\ sess[s].sessionId = "tokA"

\* C30: the exit handler of a session leaves alone the registry entry and
\* the typing interval of another session registered under its key.
C30_ExitSparesSuccessor ==
  [][\A s \in SIds :
       (act'.s = s /\ act'.name \in {"Exit", "ExitFinish"}
          /\ sessions[clo[s].key] \notin {None, s}) =>
             /\ sessions'[clo[s].key] = sessions[clo[s].key]
             /\ (clo[s].key \in sessionTypingIntervals) =>
                   (clo[s].key \in sessionTypingIntervals')]_vars

\* the record steps of the manager model: a stdout record of the session's
\* subprocess was decoded and its event handled
RecordStep == {"Delta", "ToolUse", "ToolUseUnparsed", "Result"}

\* C31: once stop() was called on a session, no record of its subprocess is
\* turned into an event any more, so no listener of the manager runs for it.
C31_SilentAfterStop ==
  [][\A s \in SIds :
       (Created(s) /\ ~sess[s].process /\ act'.s = s) =>
          act'.name \notin RecordStep]_vars

\* C32: a session whose subprocess has exited or that was stopped does not
\* become busy and no input record is written to it.
C32_TerminatedAbsorbing ==
  [][\A s \in SIds :
       TornDown(s) =>
          /\ ~isBusy(s)'
          /\ \A i \in 1 .. Len(wr') : wr'[i].s # s]_vars

\* a terminal signal of a turn among the events a step sends
Terminal(o) ==
  \E i \in 1 .. Len(o) : o[i].type \in {"completion", "failed", "fatal"}

\* C34: the step that ends a turn sends a terminal signal: the finalization
\* of a result record sends a completion or failed-turn notice (or marks the
\* user's message with a reaction), and the exit of a subprocess with a turn
\* in flight, whatever the code, sends the fatal-exit notice.
C34_TurnEndsWithSignal ==
  [][\A s \in SIds :
       /\ (act'.name = "Exit" /\ act'.s = s /\ isBusy(s) /\ sessions[clo[s].key] = s)
             => Terminal(out')
       /\ (act'.name \in {"Result", "ResultFinish"} /\ act'.s = s) =>
             \A text \in ResultTexts, isError \in BOOLEAN :
                Finalizes(s, text, isError) =>
                   Terminal(out') \/ clo[s].key \in originalMessages]_vars

\* C33: one recorded user input is resent by overflow recovery at most once:
\* an overflow step does not write again an input that an earlier overflow
\* step has already written to a replacement.
C33_OneRetry ==
  [][\A s \in SIds :
       (OverflowStep(s) /\ wr' # <<>>) =>
          ~lastUserMessages[clo[s].key].resent]_vars

\* C37: when the result handler resumes after its awaits, text that a delta
\* appended to responseBuffer during the suspension is not discarded.
C37_LateTextKept ==
  [][\A s \in SIds :
       (act'.name = "ResultFinish" /\ act'.s = s /\ clo[s].resPending.late) =>
          clo'[s].responseBuffer = clo[s].responseBuffer]_vars

\* C36: a free-text answer to a choice prompt is written to the subprocess
\* once: only the step in which the choice wait ends writes it.
C36_AnswerOnce ==
  [][\A i \in 1 .. Len(wr') :
       wr'[i].content = <<"w">> => act'.name = "ChoiceText"]_vars

\* C35: a key without a session in the registry has no running typing
\* interval, neither in the map nor forgotten by it.
C35_NoIntervalWithoutSession ==
  \A k \in Keys :
     sessions[k] = None => k \notin sessionTypingIntervals \cup orphanIntervals

\* C38: however many calls of startBot are made, and however they overlap,
\* at most one client is constructed and logged in.
C38_StartedOnce == web.logins <= 1

\* C39: GET /download/:id sends the data only when the entry exists and the
\* clock is not past its expiry, ten minutes after addDownload; after any
\* GET for an id the table has no entry for it; no id is served twice.
C39_ServedOnceInTime ==
  [][\A id \in DlIds :
       (act'.name = "GetDownload" /\ act'.s = id) =>
          /\ out' = <<Ev("sent", "none", <<>>)>> =>
                /\ web.downloads[id].on
                /\ web.now <= web.downloads[id].addedAt + ExpiryTicks
          /\ ~web'.downloads[id].on
          /\ web'.served[id] <= 1]_vars

C39_Witness ==
  /\ act.name = "GetDownload"
  /\ out = <<Ev("sent", "none", <<>>)>>
  /\ web.served[act.s] = 1
  /\ ~web.downloads[act.s].on
  /\ web.now > 0
  /\ \E j \in DlIds : j < web.nextDl /\ j # act.s /\ web.served[j] = 0
                      /\ ~web.downloads[j].on

\* the last line of text that is not blank ends, once trimmed, with "?"
LastLineAsks(text) ==
  LET lines == SplitLines(text)
      full  == {i \in 1 .. Len(lines) : ~Blank(lines[i])}
  IN /\ full # {}
     /\ LET m == CHOOSE i \in full : \A j \in full : j <= i
        IN EndsWithQ(Trim(lines[m]))

\* C40: containsQuestion(text) is true exactly when the last non-blank line
\* of text, ignoring surrounding whitespace, ends with a question mark, and a
\* delta moves the accumulated text to questionBuffer exactly when this holds
\* for the accumulated text.
C40_QuestionDetected ==
  [][act'.name = "message" =>
          LET rb == clo[TheSession].responseBuffer \o proc'[TheSession].stdout
              c  == clo'[TheSession]
          IN /\ containsQuestion(rb) <=> LastLineAsks(rb)
             /\ IF LastLineAsks(rb)
                THEN c.questionBuffer = rb /\ c.responseBuffer = <<>>
                     /\ c.questionTimeout
                ELSE c.responseBuffer = rb
                     /\ c.questionBuffer = clo[TheSession].questionBuffer
                     /\ c.questionTimeout = clo[TheSession].questionTimeout]_vars

C40_Witness ==
  /\ act.name = "message"
  /\ proc[TheSession].stdout = <<"?", "\n">>
  /\ clo[TheSession].questionBuffer = <<"a", "?", "\n">>
  /\ clo[TheSession].responseBuffer = <<>>
  /\ clo[TheSession].questionTimeout

====
